---- MODULE Spec2Model ----
(***************************************************************************)
(* min-retry: one logical call of retry(max, fetch)(...args).              *)
(*                                                                         *)
(* src/index.js wraps `fetch` in the async-retry primitive, configured     *)
(* with { retries: max, minTimeout: 10, factor: 5 }.  The callback invokes *)
(* fetch, optionally waits for a RateLimit-Reset header on a 429, throws a *)
(* synthetic RetryableError to force a retry, and bails on errors it does  *)
(* not recognise.  The primitive keeps the list of remaining timeouts and  *)
(* the list of errors seen, and settles the promise given to the caller.   *)
(*                                                                         *)
(* Time is in milliseconds.  The clock advances when a timer fires; a      *)
(* timer never fires before it is due.                                     *)
(***************************************************************************)
EXTENDS Integers, Sequences, FiniteSets, TLC

(* ------------------------------ bounds -------------------------------- *)

\* largest `max` a call is constructed with
MaxMax == 2

\* RateLimit-Reset dates are drawn this many seconds around the current time
DateSpread == 1

\* the classifier is applied to every status from 0 to this one
MaxStatus == 700

\* the resolver is applied to dates up to this many seconds and at clock
\* instants up to this many half seconds
MaxProbeSec == 3

(* --------------------------- policy constants ------------------------- *)

minTimeout == 10
factor == 5

(* ------------------------------ numbers ------------------------------- *)

\* a JavaScript number: an integer or NaN
Num(n) == [nan |-> FALSE, v |-> n]
NaN == [nan |-> TRUE, v |-> 0]

Digits == {"0", "1", "2", "3", "4", "5", "6", "7", "8", "9"}

DigitVal(c) ==
  CASE c = "0" -> 0 [] c = "1" -> 1 [] c = "2" -> 2 [] c = "3" -> 3
    [] c = "4" -> 4 [] c = "5" -> 5 [] c = "6" -> 6 [] c = "7" -> 7
    [] c = "8" -> 8 [] c = "9" -> 9

RECURSIVE SkipSpace(_)
SkipSpace(s) ==
  IF s # <<>> /\ Head(s) = " " THEN SkipSpace(Tail(s)) ELSE s

RECURSIVE LeadingDigits(_, _)
\* value of the longest prefix of digits of s, continuing from acc
LeadingDigits(s, acc) ==
  IF s # <<>> /\ Head(s) \in Digits
    THEN LeadingDigits(Tail(s), 10 * acc + DigitVal(Head(s)))
    ELSE acc

\* a conversion that accepts only a string made of digits
parseInt_Strict(s) ==
  IF s # <<>> /\ \A i \in 1..Len(s) : s[i] \in Digits
    THEN Num(LeadingDigits(s, 0))
    ELSE NaN

\* parseInt(string): leading white space, an optional sign, then digits;
\* NaN when no digit follows
parseInt(s) ==
  LET t == SkipSpace(s)
      neg == t # <<>> /\ Head(t) = "-"
      u == IF t # <<>> /\ Head(t) \in {"-", "+"} THEN Tail(t) ELSE t
  IN IF u # <<>> /\ Head(u) \in Digits
       THEN Num(IF neg THEN 0 - LeadingDigits(u, 0) ELSE LeadingDigits(u, 0))
       ELSE NaN

(* ------------------------------ headers ------------------------------- *)

\* the value response.headers.get('RateLimit-Reset') returns: null, a
\* string of characters, or the IMF-fixdate string of an instant (seconds)
NoHeader == [kind |-> "null", chars |-> <<>>, sec |-> 0]
Text(cs) == [kind |-> "text", chars |-> cs, sec |-> 0]
FixDate(s) == [kind |-> "date", chars |-> <<>>, sec |-> s]

\* JavaScript truthiness of the header value: null and "" are falsy
Truthy(h) == h.kind = "date" \/ (h.kind = "text" /\ h.chars # <<>>)

\* parseInt of the header: an IMF-fixdate starts with a day name
HeaderInt(h) == IF h.kind = "text" THEN parseInt(h.chars) ELSE NaN

\* isDeltaSeconds = compose(both(typeEq('Number'), complement(Number.isNaN)), parseInt)
isDeltaSeconds(h) == ~ HeaderInt(h).nan

\* seconds passed on as if they were milliseconds
DeltaMs_NoScale(n) == n

\* sec => sec * 1000
DeltaMs(n) == IF n.nan THEN NaN ELSE Num(n.v * 1000)

\* new Date(header).getTime(): an IMF-fixdate has a resolution of a second;
\* other text is an invalid date
DateGetTime(h) == IF h.kind = "date" THEN Num(h.sec * 1000) ELSE NaN

\* until = timestampMs => timestampMs - Date.now()
until(ts, clock) == IF ts.nan THEN NaN ELSE Num(ts.v - clock)

\* the argument the callback passes to wait() for a 429 with a header
ResetWait(h, clock) ==
  IF isDeltaSeconds(h) THEN DeltaMs(HeaderInt(h))
  ELSE until(DateGetTime(h), clock)

\* an unparsable delay replaced by a default of one second
TimerDelay_NaNDefault(ms) == IF ms.nan THEN 1000 ELSE IF ms.v < 1 THEN 1 ELSE ms.v

\* setTimeout(resolve, ms): a delay that is NaN or below 1 becomes 1
TimerDelay(ms) == IF ms.nan \/ ms.v < 1 THEN 1 ELSE ms.v

(* ------------------------------ outcomes ------------------------------ *)

\* what one invocation of fetch settles with: a Response (status and the
\* RateLimit-Reset header) or a thrown value.  `call` is the invocation
\* that produced the object, so that equal-looking objects of different
\* invocations stay distinct.
Response(st, h, c) ==
  [tag |-> "res", status |-> st, header |-> h, isError |-> FALSE,
   name |-> "", message |-> "", falsy |-> FALSE, call |-> c]

Thrown(isErr, nm, msg, fl, c) ==
  [tag |-> "err", status |-> 0, header |-> NoHeader, isError |-> isErr,
   name |-> nm, message |-> msg, falsy |-> fl, call |-> c]

\* the promise of the call has not settled with any value yet
Nothing ==
  [tag |-> "none", status |-> 0, header |-> NoHeader, isError |-> FALSE,
   name |-> "", message |-> "", falsy |-> FALSE, call |-> 0]

\* the value `undefined`
Undefined ==
  [tag |-> "undefined", status |-> 0, header |-> NoHeader, isError |-> FALSE,
   name |-> "", message |-> "", falsy |-> TRUE, call |-> 0]

\* class RetryableError extends Error; forceRetry raises
\* new RetryableError('Retrying...')
RetryableError(c) == Thrown(TRUE, "RetryableError", "Retrying...", FALSE, c)

\* async-retry's bail(err) rejects with err || new Error('Aborted')
AbortedError == Thrown(TRUE, "Error", "Aborted", FALSE, 0)

\* the allow-list without the cancellation kind
knownErrors_NoAbort == {"RetryableError", "FetchError"}

knownErrors == {"RetryableError", "FetchError", "AbortError"}

\* the name alone decides, whatever carries it
isRetryableError_NameOnly(e) == e.name \in knownErrors

\* both(is(Error), anyPass(map(propEq('name'), knownErrors)))
isRetryableError(e) == e.isError /\ e.name \in knownErrors

\* a server error range that takes in 600
isRetryableStatus_Upto600(status) == (status >= 500 /\ status <= 600) \/ status = 429

\* every client or server error status taken as retryable
isRetryableStatus_Any4xx(status) == status >= 400 /\ status < 600

\* anyPass([status >= 500 && status < 600, status === 429])
isRetryableStatus(status) == (status >= 500 /\ status < 600) \/ status = 429

\* eligibility that still holds on the last allowed attempt
CanRetry_Inclusive(t, m) == t <= (m + 1)

\* eligibility that ends one attempt early
CanRetry_Early(t, m) == t < m

\* eligibility that never ends
CanRetry_Always(t, m) == TRUE

\* const canRetry = tries < (max + 1)
CanRetry(t, m) == t < (m + 1)

(* ------------------- inputs the wrapped operation gives ---------------- *)

Statuses == {200, 410, 429, 500}

HeaderChoices(clock) ==
  {NoHeader, Text(<<>>), Text(<<"1">>), Text(<<"-", "1">>), Text(<<"x">>)}
    \cup {FixDate((clock \div 1000) + d) : d \in {0 - DateSpread, DateSpread}}

Responses(clock, c) ==
  {Response(429, h, c) : h \in HeaderChoices(clock)}
    \cup {Response(st, h, c) : st \in Statuses \ {429}, h \in {NoHeader, Text(<<"1">>)}}

\* thrown values: transport errors with two messages, a cancellation, an
\* Error of an unknown class, a plain object that only carries a known
\* name, and null
ThrownValues(c) ==
  {Thrown(TRUE, "FetchError", "m1", FALSE, c),
   Thrown(TRUE, "FetchError", "m2", FALSE, c),
   Thrown(TRUE, "AbortError", "m1", FALSE, c),
   Thrown(TRUE, "RandomError", "Yeet", FALSE, c),
   Thrown(FALSE, "FetchError", "m1", FALSE, c),
   Thrown(FALSE, "", "", TRUE, 0)}

(* -------------------- the retry primitive (async-retry) ---------------- *)

RECURSIVE Pow(_, _)
Pow(b, e) == IF e = 0 THEN 1 ELSE b * Pow(b, e - 1)

\* Math.random() + 1, in tenths
RandomTenths == {10, 19}

\* a timeout that does not grow with the attempt
createTimeout_NoGrowth(attempt, rnd) == (rnd * minTimeout + 5) \div 10

\* Math.round(random * minTimeout * Math.pow(factor, attempt))
createTimeout(attempt, rnd) == (rnd * minTimeout * Pow(factor, attempt) + 5) \div 10

RECURSIVE Insert(_, _)
Insert(x, s) ==
  IF s = <<>> THEN <<x>>
  ELSE IF x <= Head(s) THEN <<x>> \o s
  ELSE <<Head(s)>> \o Insert(x, Tail(s))

RECURSIVE SortAsc(_)
SortAsc(s) == IF s = <<>> THEN <<>> ELSE Insert(Head(s), SortAsc(Tail(s)))

\* one timeout more than `retries`
Timeouts_Extra(retries, rnds) ==
  SortAsc([i \in 1..(retries + 1) |-> createTimeout(i - 1, 10)])

\* one timeout fewer than `retries`
Timeouts_Short(retries, rnds) ==
  SortAsc([i \in 1..(retries - 1) |-> createTimeout(i - 1, rnds[i])])

\* the timeouts of an operation with `retries` retries: one per retry,
\* sorted ascending; rnds[i] is the random factor of retry i
Timeouts(retries, rnds) ==
  SortAsc([i \in 1..retries |-> createTimeout(i - 1, rnds[i])])

\* number of errors among es[1..i] whose message is msg
RECURSIVE CountMsg(_, _, _)
CountMsg(es, i, msg) ==
  IF i = 0 THEN 0
  ELSE CountMsg(es, i - 1, msg) + (IF es[i].message = msg THEN 1 ELSE 0)

\* RetryOperation.mainError: the error whose message occurred most often,
\* scanning in order and replacing the candidate whenever count >= best
RECURSIVE MainScan(_, _, _, _)
MainScan(es, i, best, bestCount) ==
  IF i > Len(es) THEN best
  ELSE LET count == CountMsg(es, i, es[i].message)
       IN IF count >= bestCount
            THEN MainScan(es, i + 1, es[i], count)
            ELSE MainScan(es, i + 1, best, bestCount)

mainError(es) == MainScan(es, 1, Nothing, 0)

(* ------------------------------- state -------------------------------- *)

VARIABLES
  max,        \* the `max` the retrying operation was constructed with
  pc,         \* "idle", "fetching", "waiting", "backoff" or "done"
  tries,      \* attempt number the primitive passes to the callback
  canRetry,   \* the callback's `canRetry` of the attempt in progress
  timeouts,   \* the primitive's remaining retry timeouts
  errors,     \* the primitive's list of errors it was asked to retry
  res,        \* the response held while the rate-limit wait is pending
  due,        \* instant the pending timer is due
  now,        \* the clock, in milliseconds
  settled,    \* "pending", "fulfilled" or "rejected": the caller's promise
  value,      \* what the caller's promise settled with
  calls,      \* invocations of the wrapped operation so far
  hist,       \* outcome of every invocation that has settled
  callTimes,  \* instant of every invocation
  respTimes,  \* instant every invocation settled
  probe,      \* input a classifier or the resolver is applied to on its own
  verdict     \* what it returned

vars == <<max, pc, tries, canRetry, timeouts, errors, res, due, now,
          settled, value, calls, hist, callTimes, respTimes, probe, verdict>>

\* the state of one logical call
call == <<max, pc, tries, canRetry, timeouts, errors, res, due, now,
          settled, value, calls, hist, callTimes, respTimes>>

NoProbe == [kind |-> "none", status |-> 0, header |-> NoHeader, clock |-> 0]
NoVerdict == [done |-> FALSE, bool |-> FALSE, num |-> NaN, timer |-> 0]

\* the state of the primitive and of the caller's promise
prim == <<pc, timeouts, errors, due, settled, value>>

Init ==
  /\ max \in 0..MaxMax
  /\ pc = "idle"
  /\ tries = 0
  /\ canRetry = FALSE
  /\ timeouts = <<>>
  /\ errors = <<>>
  /\ res = Nothing
  /\ due = 0
  /\ now = 0
  /\ settled = "pending"
  /\ value = Nothing
  /\ calls = 0
  /\ hist = <<>>
  /\ callTimes = <<>>
  /\ respTimes = <<>>
  /\ probe = NoProbe
  /\ verdict = NoVerdict

(* ------------------ settling the caller's promise --------------------- *)

\* resolve(v) / reject(v) of new Promise(run) on the promise state p: only
\* the first one counts
Settle(p, how, v) ==
  IF p.settled = "pending" THEN [settled |-> how, value |-> v] ELSE p

Promise == [settled |-> settled, value |-> value]

Resolve(v) ==
  /\ settled' = Settle(Promise, "fulfilled", v).settled
  /\ value' = Settle(Promise, "fulfilled", v).value
  /\ pc' = "done"
  /\ UNCHANGED <<timeouts, errors, due>>

Reject(v) ==
  /\ settled' = Settle(Promise, "rejected", v).settled
  /\ value' = Settle(Promise, "rejected", v).value
  /\ pc' = "done"

\* bail(err): reject(err || new Error('Aborted')); the catch handler returns
\* bail's undefined, so the callback's promise fulfils with undefined and
\* the primitive calls resolve(undefined) on the promise already rejected
Bail(e) ==
  LET rejected == Settle(Promise, "rejected", IF e.falsy THEN AbortedError ELSE e)
      after == Settle(rejected, "fulfilled", Undefined)
  IN /\ settled' = after.settled
     /\ value' = after.value
     /\ pc' = "done"
     /\ UNCHANGED <<timeouts, errors, due>>

\* an exhausted primitive that forgets to reject
OnError_NoReject(e) ==
  /\ errors' = Append(errors, e)
  /\ IF timeouts = <<>>
       THEN /\ pc' = "done"
            /\ UNCHANGED <<timeouts, due, settled, value>>
       ELSE /\ timeouts' = Tail(timeouts)
            /\ due' = now' + Head(timeouts)
            /\ pc' = "backoff"
            /\ UNCHANGED <<settled, value>>

\* onError(err): op.retry(err) records the error and, when a timeout is
\* left, arms the timer of the next attempt; otherwise reject(op.mainError())
OnError(e) ==
  /\ errors' = Append(errors, e)
  /\ IF timeouts = <<>>
       THEN /\ Reject(mainError(Append(errors, e)))
            /\ UNCHANGED <<timeouts, due>>
       ELSE /\ timeouts' = Tail(timeouts)
            /\ due' = now' + Head(timeouts)
            /\ pc' = "backoff"
            /\ UNCHANGED <<settled, value>>

\* .catch(ifElse(isRetryableError, raise, bail))
Catch(e) == IF isRetryableError(e) THEN OnError(e) ELSE Bail(e)

\* .then(when(res => isRetryableStatus(res.status) && canRetry, forceRetry))
Decide(r) ==
  IF isRetryableStatus(r.status) /\ canRetry
    THEN Catch(RetryableError(r.call))
    ELSE Resolve(r)

(* ------------------------------ actions ------------------------------- *)

\* a wait for every response that carries the header
NeedsResetWait_AnyStatus(r) == Truthy(r.header)

\* a wait only while a retry can follow
NeedsResetWait_OnlyIfRetry(r) == Truthy(r.header) /\ r.status = 429 /\ canRetry

\* if (resetHeader && res.status === 429)
NeedsResetWait(r) == Truthy(r.header) /\ r.status = 429

\* the callback starts: canRetry is computed and fetch(...args) is invoked
Invoke(t) ==
  /\ tries' = t
  /\ canRetry' = CanRetry(t, max)
  /\ calls' = calls + 1
  /\ callTimes' = Append(callTimes, now')

\* retry(max, fetch)(...args): the operation is created with its timeouts
\* and the first attempt runs at once
Call ==
  /\ pc = "idle"
  /\ \E rnds \in [1..max -> RandomTenths] : timeouts' = Timeouts(max, rnds)
  /\ errors' = <<>>
  /\ pc' = "fetching"
  /\ now' = now
  /\ Invoke(1)
  /\ UNCHANGED <<max, res, due, settled, value, hist, respTimes, probe, verdict>>

\* fetch fulfils with a response
FetchFulfil ==
  /\ pc = "fetching"
  /\ \E r \in Responses(now, calls) :
       /\ hist' = Append(hist, r)
       /\ respTimes' = Append(respTimes, now)
       /\ now' = now
       /\ IF NeedsResetWait(r)
            THEN /\ res' = r
                 /\ due' = now + TimerDelay(ResetWait(r.header, now))
                 /\ pc' = "waiting"
                 /\ UNCHANGED <<timeouts, errors, settled, value>>
            ELSE /\ res' = res
                 /\ Decide(r)
  /\ UNCHANGED <<max, tries, canRetry, calls, callTimes, probe, verdict>>

\* fetch rejects with a thrown value
FetchReject ==
  /\ pc = "fetching"
  /\ \E e \in ThrownValues(calls) :
       /\ hist' = Append(hist, e)
       /\ respTimes' = Append(respTimes, now)
       /\ now' = now
       /\ Catch(e)
  /\ UNCHANGED <<max, tries, canRetry, res, calls, callTimes, probe, verdict>>

\* the rate-limit wait is over: the callback goes on with the response
WaitDone ==
  /\ pc = "waiting"
  /\ now' = (IF due > now THEN due ELSE now)
  /\ Decide(res)
  /\ res' = Nothing
  /\ UNCHANGED <<max, tries, canRetry, calls, hist, callTimes, respTimes, probe, verdict>>

\* the retry timer fires: the primitive runs the next attempt
RetryTimer ==
  /\ pc = "backoff"
  /\ now' = (IF due > now THEN due ELSE now)
  /\ pc' = "fetching"
  /\ Invoke(tries + 1)
  /\ UNCHANGED <<max, timeouts, errors, res, due, settled, value, hist, respTimes, probe, verdict>>

Next == Call \/ FetchFulfil \/ FetchReject \/ WaitDone \/ RetryTimer

Spec == Init /\ [][Next]_vars

\* every invocation of the wrapped operation settles and every timer
\* fires: a step that can be taken is eventually taken
FairSpec == Spec /\ WF_vars(Next)

(* ------------- the classifier and the resolver on their own ----------- *)

\* RateLimit-Reset texts the resolver is applied to
ProbeTexts ==
  {<<"0">>, <<"1">>, <<"2">>, <<"1", "2">>, <<"-", "1">>, <<"+", "3">>,
   <<" ", "2">>, <<"1", "x">>, <<"2", " ", "1">>, <<"x">>, <<"x", "1">>,
   <<"-">>, <<"-", "x">>, <<"-", " ", "1">>}

Probes ==
  {[kind |-> "status", status |-> st, header |-> NoHeader, clock |-> 0] :
     st \in 0..MaxStatus}
  \cup {[kind |-> "header", status |-> 429, header |-> h, clock |-> 500 * c] :
          h \in {Text(t) : t \in ProbeTexts} \cup {FixDate(d) : d \in 0..MaxProbeSec},
          c \in 0..MaxProbeSec}

InitPure ==
  /\ max = 0
  /\ pc = "idle"
  /\ tries = 0
  /\ canRetry = FALSE
  /\ timeouts = <<>>
  /\ errors = <<>>
  /\ res = Nothing
  /\ due = 0
  /\ now = 0
  /\ settled = "pending"
  /\ value = Nothing
  /\ calls = 0
  /\ hist = <<>>
  /\ callTimes = <<>>
  /\ respTimes = <<>>
  /\ probe \in Probes
  /\ verdict = NoVerdict

\* isRetryableStatus(status)
ClassifyStatus ==
  /\ probe.kind = "status"
  /\ ~ verdict.done
  /\ verdict' = [done |-> TRUE, bool |-> isRetryableStatus(probe.status),
                 num |-> NaN, timer |-> 0]
  /\ UNCHANGED <<call, probe>>

\* the wait computed for a 429 with the header, and the delay of its timer
ResolveWait ==
  /\ probe.kind = "header"
  /\ ~ verdict.done
  /\ verdict' = [done |-> TRUE, bool |-> isDeltaSeconds(probe.header),
                 num |-> ResetWait(probe.header, probe.clock),
                 timer |-> TimerDelay(ResetWait(probe.header, probe.clock))]
  /\ UNCHANGED <<call, probe>>

NextPure == ClassifyStatus \/ ResolveWait

SpecPure == InitPure /\ [][NextPure]_vars

TypeOK ==
  /\ max \in 0..MaxMax
  /\ pc \in {"idle", "fetching", "waiting", "backoff", "done"}
  /\ settled \in {"pending", "fulfilled", "rejected"}
  /\ calls \in Nat /\ tries \in Nat
  /\ Len(callTimes) = calls

(* ----------------------- vocabulary of the properties ----------------- *)

\* the classification the documentation states, written out on its own
RetryableStatusOutcome(o) ==
  o.tag = "res" /\ (o.status = 429 \/ (500 <= o.status /\ o.status <= 599))

TerminalStatusOutcome(o) == o.tag = "res" /\ ~ RetryableStatusOutcome(o)

TransientErrorOutcome(o) ==
  o.tag = "err" /\ o.isError /\ o.name \in {"FetchError", "AbortError"}

UnrecognizedOutcome(o) ==
  o.tag = "err"
    /\ ~ (o.isError /\ o.name \in {"RetryableError", "FetchError", "AbortError"})

RetryableOutcome(o) == RetryableStatusOutcome(o) \/ TransientErrorOutcome(o)

CancellationOutcome(o) == o.tag = "err" /\ o.isError /\ o.name = "AbortError"

Synthetic(v) == v.tag = "err" /\ v.name = "RetryableError"

Outcomes == 1..Len(hist)

(* -------------------------------- C1 ---------------------------------- *)

\* C1: one logical call invokes the wrapped operation at most max + 1
\* times, whatever the outcomes are.
C1_AtMostMaxPlusOne == calls <= max + 1

\* a call that used its whole budget on errors and status retries
C1_Witness ==
  /\ pc = "done" /\ max >= 2 /\ calls = max + 1
  /\ \E i \in Outcomes : TransientErrorOutcome(hist[i])
  /\ \E i \in Outcomes : RetryableStatusOutcome(hist[i])

(* -------------------------------- C2 ---------------------------------- *)

\* C2: the error the logical call rejects with is never the synthetic
\* RetryableError.
C2_SyntheticNeverVisible == settled = "rejected" => ~ Synthetic(value)

(* -------------------------------- C3 ---------------------------------- *)

\* C3: when every invocation returned a retryable status, the finished call
\* has made exactly max + 1 invocations and fulfilled with the response of
\* the last one; it never rejects.
C3_AllRetryableStatus ==
  (\A i \in Outcomes : RetryableStatusOutcome(hist[i]))
    => /\ settled # "rejected"
       /\ pc = "done" =>
            /\ calls = max + 1
            /\ settled = "fulfilled"
            /\ value = hist[max + 1]
            /\ value.call = max + 1

C3_Witness ==
  /\ pc = "done" /\ max >= 2 /\ settled = "fulfilled"
  /\ \A i \in Outcomes : RetryableStatusOutcome(hist[i])
  /\ \E i \in Outcomes : hist[i].status = 500
  /\ hist[max + 1].status = 429

(* -------------------------------- C4 ---------------------------------- *)

\* C4: when every invocation threw a FetchError or AbortError, the finished
\* call has made exactly max + 1 invocations and rejected with one of the
\* errors the operation threw, kind and message as thrown.
C4_AllTransientErrors ==
  (pc = "done" /\ \A i \in Outcomes : TransientErrorOutcome(hist[i]))
    => /\ calls = max + 1
       /\ settled = "rejected"
       /\ \E i \in Outcomes : value = hist[i]
       /\ value.name \in {"FetchError", "AbortError"}

C4_Witness ==
  /\ pc = "done" /\ max >= 2 /\ settled = "rejected"
  /\ \A i \in Outcomes : TransientErrorOutcome(hist[i])
  /\ \E i \in Outcomes : hist[i].name = "AbortError"

(* -------------------------------- C5 ---------------------------------- *)

\* C5: an unrecognized thrown value ends the call at once: the call rejects
\* with that same value and the invocation that threw it is the last one.
C5_UnrecognizedFatal ==
  \A i \in Outcomes :
    UnrecognizedOutcome(hist[i])
      => /\ pc = "done"
         /\ settled = "rejected"
         /\ value = hist[i]
         /\ calls = i

(* -------------------------------- C6 ---------------------------------- *)

\* C6: a response whose status is neither 429 nor 5xx ends the call at
\* once: the call fulfils with that response and the invocation that
\* returned it is the last one.
C6_TerminalStatus ==
  \A i \in Outcomes :
    TerminalStatusOutcome(hist[i])
      => /\ pc = "done"
         /\ settled = "fulfilled"
         /\ value = hist[i]
         /\ calls = i

C6_Witness ==
  /\ pc = "done" /\ max >= 1
  /\ calls = 1 /\ hist[1].status = 410 /\ value = hist[1]

(* -------------------------------- C7 ---------------------------------- *)

\* C7: after k <= max retryable outcomes the call is still pending and
\* heading for invocation k + 1; when that invocation returns 200 the call
\* has made exactly k + 1 invocations and fulfilled with the 200 response.
C7_RetryThenSuccess ==
  \A k \in 0..max :
    (Len(hist) >= k /\ \A i \in 1..k : RetryableOutcome(hist[i]))
      => /\ Len(hist) = k /\ k >= 1 =>
              (settled = "pending" /\ pc \in {"waiting", "backoff", "fetching"})
         /\ (Len(hist) = k + 1 /\ hist[k + 1].tag = "res" /\ hist[k + 1].status = 200)
              => /\ calls = k + 1
                 /\ pc = "done"
                 /\ settled = "fulfilled"
                 /\ value = hist[k + 1]

C7_Witness ==
  /\ pc = "done" /\ max >= 2 /\ calls = max + 1
  /\ hist[calls].tag = "res" /\ hist[calls].status = 200
  /\ settled = "fulfilled" /\ value = hist[calls]
  /\ \E i \in 1..max : TransientErrorOutcome(hist[i])
  /\ \E i \in 1..max : RetryableStatusOutcome(hist[i])

(* -------------------------------- C8 ---------------------------------- *)

\* C8 as stated: no invocation follows one that failed with an AbortError.
C8_AbortStopsLoop ==
  \A i \in Outcomes : CancellationOutcome(hist[i]) => calls = i

\* C8, amended: an AbortError is retried like any transient failure.  On an
\* attempt i <= max the call stays pending with the retry timer armed and
\* a further invocation follows; only on attempt max + 1 does the call end,
\* rejected.
C8_AbortIsRetried ==
  \A i \in Outcomes :
    CancellationOutcome(hist[i])
      => IF i <= max
           THEN calls > i \/ (pc = "backoff" /\ settled = "pending")
           ELSE calls = i /\ pc = "done" /\ settled = "rejected"

C8_Witness ==
  \E i \in Outcomes : CancellationOutcome(hist[i]) /\ i <= max /\ calls > i

(* -------------------------------- C9 ---------------------------------- *)

C10_FinalErrorSurfaced ==
  (pc = "done" /\ Len(hist) = max + 1 /\ TransientErrorOutcome(hist[max + 1]))
    => settled = "rejected" /\ value = hist[max + 1]

(* ------------------------ vocabulary of the delays -------------------- *)

\* smallest backoff of the retry that follows attempt i: 10 ms times 5 per
\* attempt; the random factor keeps it below twice that
FloorDelay(i) ==
  CASE i = 1 -> 10 [] i = 2 -> 50 [] i = 3 -> 250 [] i = 4 -> 1250
    [] OTHER -> 6250

RateLimited(o) == o.tag = "res" /\ o.status = 429 /\ o.header.kind # "null"

(* -------------------------------- C11 --------------------------------- *)

\* C11: when the last allowed attempt (max + 1) yields a 429 with a
\* RateLimit-Reset header, the call first waits as the header says and only
\* then fulfils with that 429 response; no further invocation is made.
C11_WaitOnLastAttempt ==
  (Len(hist) = max + 1 /\ hist[max + 1].tag = "res" /\ hist[max + 1].status = 429
     /\ (hist[max + 1].header = Text(<<"1">>) \/ hist[max + 1].header.kind = "date"))
    => /\ calls = max + 1
       /\ pc \in {"waiting", "done"}
       /\ pc = "waiting" => settled = "pending"
       /\ pc = "done" =>
            /\ settled = "fulfilled"
            /\ value = hist[max + 1]
            /\ hist[max + 1].header = Text(<<"1">>)
                 => now >= respTimes[max + 1] + 1000
            /\ hist[max + 1].header.kind = "date"
                 => now >= hist[max + 1].header.sec * 1000

C11_Witness ==
  /\ pc = "done" /\ max >= 1 /\ Len(hist) = max + 1
  /\ hist[max + 1].status = 429 /\ hist[max + 1].header = Text(<<"1">>)
  /\ value = hist[max + 1]
  /\ now >= respTimes[max + 1] + 1000

(* -------------------------------- C12 --------------------------------- *)

\* C12 as stated: after a 429 with RateLimit-Reset: 1 and attempts left,
\* the next invocation starts when the rate-limit wait of 1000 ms is over,
\* with no exponential backoff on top.
C12_WaitAlone ==
  \A i \in Outcomes :
    (i < calls /\ hist[i].tag = "res" /\ hist[i].status = 429
       /\ hist[i].header = Text(<<"1">>))
      => callTimes[i + 1] = respTimes[i] + 1000

\* C12, amended: the exponential backoff of the primitive is applied after
\* every retryable response.  After a rate-limit wait the next invocation
\* starts no sooner than the wait plus the backoff of that retry; without a
\* rate-limit wait, no sooner than the backoff.
C12_WaitThenBackoff ==
  \A i \in Outcomes :
    (i < calls /\ RetryableStatusOutcome(hist[i]))
      => /\ callTimes[i + 1] >= respTimes[i] + FloorDelay(i)
         /\ (hist[i].status = 429 /\ hist[i].header = Text(<<"1">>))
              => callTimes[i + 1] >= respTimes[i] + 1000 + FloorDelay(i)
         /\ (hist[i].status = 429 /\ hist[i].header.kind = "date")
              => callTimes[i + 1] >= hist[i].header.sec * 1000 + FloorDelay(i)

C12_Witness ==
  /\ calls = 3
  /\ hist[1].status = 500
  /\ hist[2].status = 429 /\ hist[2].header = Text(<<"1">>)
  /\ callTimes[3] >= respTimes[2] + 1000 + 50

(* -------------------------------- C13 --------------------------------- *)

\* C13: a rate-limit wait happens only for a 429 that carries the header.
\* After any other outcome (another status with the header, a 429 without
\* it, a thrown value) a retry starts within the backoff of that retry and
\* a final outcome settles the call at the instant it arrived.
C13_WaitOnlyFor429WithHeader ==
  /\ pc = "waiting" => RateLimited(hist[Len(hist)])
  /\ \A i \in Outcomes :
       ~ RateLimited(hist[i])
         => /\ i < calls => callTimes[i + 1] < respTimes[i] + 2 * FloorDelay(i)
            /\ i = calls => pc \in {"backoff", "done"}
            /\ (i = calls /\ pc = "done") => now = respTimes[i]

C13_Witness ==
  /\ calls = 3
  /\ hist[1].status = 500 /\ hist[1].header = Text(<<"1">>)
  /\ hist[2].status = 429 /\ hist[2].header = NoHeader
  /\ callTimes[2] < respTimes[1] + 20

(* -------------------------------- C14 --------------------------------- *)

\* C14: a 429 whose RateLimit-Reset is neither an integer nor a date raises
\* no error and forces no wait beyond the timer's minimum of 1 ms: with
\* attempts left the retry starts within the backoff of that retry, on the
\* last attempt the 429 response is returned.
C14_MalformedHeader ==
  \A i \in Outcomes :
    (hist[i].tag = "res" /\ hist[i].status = 429 /\ hist[i].header = Text(<<"x">>))
      => /\ Len(hist) = i => settled # "rejected"
         /\ (i <= max /\ i = calls) => (settled = "pending" /\ pc \in {"waiting", "backoff"})
         /\ i < calls =>
              /\ callTimes[i + 1] >= respTimes[i] + FloorDelay(i)
              /\ callTimes[i + 1] <= respTimes[i] + 2 * FloorDelay(i)
         /\ (i = max + 1 /\ pc = "done") =>
              /\ settled = "fulfilled" /\ value = hist[i] /\ calls = i
              /\ now <= respTimes[i] + 1

C14_Witness ==
  /\ pc = "done" /\ max >= 1 /\ Len(hist) = max + 1
  /\ \A i \in Outcomes : hist[i].status = 429 /\ hist[i].header = Text(<<"x">>)
  /\ settled = "fulfilled"

(* -------------------------------- C16 --------------------------------- *)

\* C16: a thrown value is treated as retryable (handed to the primitive for
\* a retry) iff it is an Error whose name is RetryableError, FetchError or
\* AbortError.  Any other thrown value ends the call at once, rejected,
\* with no timeout of the primitive consumed for it; a value that is not an
\* Error but carries one of the names is surfaced as thrown.
C16_RetryableErrorClass ==
  \A i \in Outcomes :
    hist[i].tag = "err"
      => LET known == hist[i].isError
                        /\ hist[i].name \in {"RetryableError", "FetchError", "AbortError"}
             retried == \E j \in 1..Len(errors) : errors[j] = hist[i]
         IN /\ retried <=> known
            /\ ~ known =>
                 /\ pc = "done" /\ settled = "rejected" /\ calls = i
                 /\ Len(errors) = i - 1
                 /\ Len(timeouts) = max - (i - 1)
                 /\ (~ hist[i].isError /\ hist[i].name = "FetchError")
                      => value = hist[i]

C16_Witness ==
  /\ pc = "done" /\ max = 2 /\ calls = 2
  /\ TransientErrorOutcome(hist[1])
  /\ ~ hist[2].isError /\ hist[2].name = "FetchError"
  /\ settled = "rejected" /\ value = hist[2]
  /\ Len(timeouts) = 1

(* -------------------------------- C19 --------------------------------- *)

\* C19: the attempt number given to the callback equals the number of
\* invocations made so far; while an attempt is in progress its canRetry
\* is true exactly when the primitive still holds a timeout; and the
\* synthetic retry signal is raised only on attempts tries <= max and is
\* always followed by the retry timer and another invocation.
C19_EligibilityMatchesBudget ==
  /\ pc # "idle" => tries = calls
  /\ pc \in {"fetching", "waiting"} => (canRetry <=> timeouts # <<>>)
  /\ \A j \in 1..Len(errors) :
       Synthetic(errors[j])
         => /\ errors[j].call <= max
            /\ calls > errors[j].call \/ (pc = "backoff" /\ settled = "pending")

C19_Witness ==
  /\ max >= 2 /\ calls = max + 1 /\ pc = "fetching"
  /\ ~ canRetry /\ timeouts = <<>>
  /\ Synthetic(errors[max]) /\ errors[max].call = max

(* -------------------------------- C15 --------------------------------- *)

\* what each text is by a leading-numeric parse: <<text, is an integer,
\* the integer>>
ExpectedInt ==
  {<< <<"0">>, TRUE, 0 >>, << <<"1">>, TRUE, 1 >>, << <<"2">>, TRUE, 2 >>,
   << <<"1", "2">>, TRUE, 12 >>, << <<"-", "1">>, TRUE, 0 - 1 >>,
   << <<"+", "3">>, TRUE, 3 >>, << <<" ", "2">>, TRUE, 2 >>,
   << <<"1", "x">>, TRUE, 1 >>, << <<"2", " ", "1">>, TRUE, 2 >>,
   << <<"x">>, FALSE, 0 >>, << <<"x", "1">>, FALSE, 0 >>,
   << <<"-">>, FALSE, 0 >>, << <<"-", "x">>, FALSE, 0 >>,
   << <<"-", " ", "1">>, FALSE, 0 >>}

\* C15: the wait resolved from a RateLimit-Reset value is the integer of a
\* leading-numeric parse times 1000 ms, zero and negative included;
\* otherwise the instant of the date minus the current time, which may be
\* non-positive (and not a number when the value is no date either).  A
\* wait that is not positive is not an error: its timer fires at once.
C15_ResolvedWait ==
  (verdict.done /\ probe.kind = "header")
    => /\ probe.header.kind = "text" =>
            \E row \in ExpectedInt :
              /\ row[1] = probe.header.chars
              /\ verdict.num = (IF row[2] THEN Num(row[3] * 1000) ELSE NaN)
       /\ probe.header.kind = "date" =>
            verdict.num = Num(probe.header.sec * 1000 - probe.clock)
       /\ (verdict.num.nan \/ verdict.num.v <= 0) => verdict.timer = 1
       /\ (~ verdict.num.nan /\ verdict.num.v > 0) => verdict.timer = verdict.num.v

C15_Witness ==
  /\ verdict.done
  /\ probe.header = Text(<<"-", "1">>)
  /\ verdict.num = Num(0 - 1000)
  /\ verdict.timer = 1

(* -------------------------------- C17 --------------------------------- *)

\* C17: isRetryableStatus(status) is true iff status is 429 or lies in
\* 500..599.
C17_RetryableStatus ==
  (verdict.done /\ probe.kind = "status")
    => (verdict.bool <=> (probe.status = 429
                            \/ (500 <= probe.status /\ probe.status <= 599)))

C17_Witness ==
  verdict.done /\ probe.kind = "status" /\ probe.status = 600 /\ ~ verdict.bool

(* -------------------------------- C18 --------------------------------- *)

\* C18: when every invocation settles and every timer fires, the call
\* eventually ends with its promise fulfilled or rejected; once the promise
\* has settled, neither its state nor its value changes and no further
\* invocation is made.
C18_TerminatesOnce ==
  /\ <>(pc = "done" /\ settled \in {"fulfilled", "rejected"})
  /\ [][settled # "pending"
          => (settled' = settled /\ value' = value /\ calls' = calls)]_vars

\* a call ended by bail, whose late resolve(undefined) changed nothing
C18_Witness ==
  /\ pc = "done" /\ max >= 1 /\ calls = 2
  /\ UnrecognizedOutcome(hist[2])
  /\ settled = "rejected" /\ value # Undefined

====
